---- MODULE Spec2Model ----
(* Model of backend/app.py: the Flask relay with the routes /predict         *)
(* (classify only) and /save-history (storage upload + two table inserts).   *)
(* Requests are handled concurrently; a handler is split only at its         *)
(* outbound calls (classifier POST, storage upload, table inserts).          *)
(* reqs is the bag of the requests received so far, each with the position   *)
(* of its handler, the outbound calls it made and the response it sent; an   *)
(* HTTP request has no identity beyond its contents, hence a bag.            *)
(*                                                                           *)
(* Numbers: a Python float is modelled as an integer count of 1/Scale, so    *)
(* 0.87 is 87 and 87.0 is 8700.  Strings handed to float() are sequences of  *)
(* one-character strings and are parsed digit by digit.                      *)
EXTENDS Integers, Sequences, FiniteSets, Bags, TLC

\* ---------------------------------------------------------------- bounds
MaxReqs == 2          \* number of requests received in one behaviour
MaxClock == 1         \* int(time.time()) reads a value in 0..MaxClock

\* ------------------------------------------------------------- constants
Scale == 100                          \* fixed-point unit of a float
BUCKET_NAME == "captured-images"

VARIABLES reqs, storage, captured_images, labeled_images

vars == <<reqs, storage, captured_images, labeled_images>>

\* ------------------------------------------------------ Python float(str)
Digits == <<"0", "1", "2", "3", "4", "5", "6", "7", "8", "9">>

IsDigit(c) == \E i \in 1..10 : Digits[i] = c

DigitVal(c) == (CHOOSE i \in 1..10 : Digits[i] = c) - 1

AllDigits(s) == \A i \in 1..Len(s) : IsDigit(s[i])

RECURSIVE IntVal(_)
IntVal(s) ==
    IF s = <<>> THEN 0
    ELSE IntVal(SubSeq(s, 1, Len(s) - 1)) * 10 + DigitVal(s[Len(s)])

\* value of the fractional digits, in units of 1/Scale (two digits kept)
FracVal(s) ==
    (IF Len(s) >= 1 THEN DigitVal(s[1]) * 10 ELSE 0)
    + (IF Len(s) >= 2 THEN DigitVal(s[2]) ELSE 0)

\* float(s) for s a string: optional sign, digits, optional point, digits.
ParseFloat(s) ==
    LET signed == s # <<>> /\ s[1] \in {"-", "+"}
        body == IF signed THEN Tail(s) ELSE s
        dots == {i \in 1..Len(body) : body[i] = "."}
        ip == IF dots = {} THEN body
              ELSE SubSeq(body, 1, (CHOOSE i \in dots : TRUE) - 1)
        fp == IF dots = {} THEN <<>>
              ELSE SubSeq(body, (CHOOSE i \in dots : TRUE) + 1, Len(body))
        wellFormed == /\ Cardinality(dots) <= 1
                      /\ AllDigits(ip) /\ AllDigits(fp)
                      /\ Len(ip) + Len(fp) >= 1
        mag == IntVal(ip) * Scale + FracVal(fp)
    IN  IF wellFormed
        THEN [ok |-> TRUE, n |-> IF signed /\ s[1] = "-" THEN 0 - mag ELSE mag,
              err |-> ""]
        ELSE [ok |-> FALSE, n |-> 0, err |-> "ValueError"]

\* ------------------------------------------------------------ JSON values
JNum(n) == [t |-> "num", n |-> n, s |-> <<>>]
JStr(s) == [t |-> "str", n |-> 0, s |-> s]
JNull == [t |-> "null", n |-> 0, s |-> <<>>]

\* float(v) for v a decoded JSON value
PyFloat(v) ==
    IF v.t = "num" THEN [ok |-> TRUE, n |-> v.n, err |-> ""]
    ELSE IF v.t = "str" THEN ParseFloat(v.s)
    ELSE [ok |-> FALSE, n |-> 0, err |-> "TypeError"]

\* a key of a dict / a field of a form: present or not
Missing(filler) == [has |-> FALSE, v |-> filler]
Field(v) == [has |-> TRUE, v |-> v]

\* dict.get(key, default)
DictGet(f, default) == IF f.has THEN f.v ELSE default

\* truthiness of request.form.get(key): None and "" are falsy
Truthy(f, empty) == f.has /\ f.v # empty

\* ------------------------------------------------------------- the inputs
FileNames == {"a.jpg", "b.jpg"}

\* an uploaded file: its client filename and its bytes
Image(n) == [filename |-> n, bytes |-> <<"bytes of", n>>]

NoImage == Image("")

\* request.files: the "image" part, present or not
Files == {Missing(NoImage)} \cup {Field(Image(n)) : n \in FileNames}

\* the "confidence" form field, as the client typed it
Confidences ==
    { Field(<<"8", "7", ".", "5">>),
      Field(<<"2", "5", "0">>),
      Field(<<"a", "b", "c">>) }

\* forms with every field filled in
CompleteForms ==
    {[animal |-> Field("fox"), confidence |-> c, user_id |-> Field("u1")] :
        c \in Confidences}

\* forms with one field absent or empty
IncompleteForms ==
    LET base == CHOOSE f \in CompleteForms : TRUE
    IN  { [base EXCEPT !.animal = Missing("")],
          [base EXCEPT !.animal = Field("")],
          [base EXCEPT !.confidence = Missing(<<>>)],
          [base EXCEPT !.user_id = Missing("")] }

Forms == CompleteForms \cup IncompleteForms

NoForm ==
    [animal |-> Missing(""), confidence |-> Missing(<<>>), user_id |-> Missing("")]

\* what the classifier endpoint can answer
NoBody == [json |-> "none", label |-> Missing(""), confidence |-> Missing(JNull)]

ClassifierBodies ==
    {[json |-> "malformed", label |-> Missing(""), confidence |-> Missing(JNull)]}
    \cup
    {[json |-> "object", label |-> l, confidence |-> c] :
        l \in {Missing(""), Field("fox")},
        c \in {Missing(JNull), Field(JNum(87)), Field(JNull),
               Field(JStr(<<"a", "b", "c">>))}}

NoModelResponse == [kind |-> "none", status |-> 0, body |-> NoBody]

ClassifierResponses ==
    {[kind |-> "timeout", status |-> 0, body |-> NoBody]}
    \cup {[kind |-> "http", status |-> 500, body |-> b] :
             b \in {x \in ClassifierBodies : x.json = "malformed"}}
    \cup {[kind |-> "http", status |-> 200, body |-> b] : b \in ClassifierBodies}

\* --------------------------------------------------------------- requests
NewReq(route, method, file, form) ==
    [route |-> route, method |-> method, file |-> file,
     form |-> form,
     pc |-> "received", log |-> <<>>, resp |-> <<>>,
     model_response |-> NoModelResponse,
     filename |-> <<>>, public_url |-> <<>>, captured_id |-> 0]

Response(code, body) == [code |-> code, body |-> body]

\* return jsonify(...), code: the handler ends
Respond(req, response) ==
    [req EXCEPT !.resp = Append(@, response), !.pc = "done"]

\* one outbound call and how it ended
Call(name, res, err) == [call |-> name, res |-> res, err |-> err]

\* variant: the status code of the error response is left out
ErrorResponseDefaultStatus(e) == Response(200, [error |-> e])

ErrorResponse(e) == Response(500, [error |-> e])

Requests == BagToSet(reqs)

\* a new request arrives / the handler of req moves on
Arrive(req) == reqs (+) SetToBag({req})
Step(req, next) == (reqs (-) SetToBag({req})) (+) SetToBag({next})

\* --------------------------------------------------------------- /predict
PredictValid(req) == req.file.has

\* the client filename is only passed through to the classifier
PredictFiles == {Missing(NoImage), Field(Image("a.jpg"))}

RaisesForStatus(status) == status >= 400 /\ status < 600

\* the exception raised by requests.post / raise_for_status / response.json
ClassifierError(response) ==
    IF response.kind = "timeout" THEN "Timeout"
    ELSE IF RaisesForStatus(response.status) THEN "HTTPError"
    ELSE IF response.body.json # "object" THEN "JSONDecodeError"
    ELSE ""

PredictAnimal(prediction) == DictGet(prediction.label, "Unknown")

\* variant: the fraction is returned unscaled
PredictConfidenceUnscaled(prediction) ==
    PyFloat(DictGet(prediction.confidence, JNum(0)))

PredictConfidence(prediction) ==
    LET f == PyFloat(DictGet(prediction.confidence, JNum(0)))
    IN  [f EXCEPT !.n = @ * 100]

PredictOutcome(response) ==
    IF ClassifierError(response) # ""
    THEN ErrorResponse(ClassifierError(response))
    ELSE LET prediction == response.body
             animal == PredictAnimal(prediction)
             confidence == PredictConfidence(prediction)
         IN  IF ~confidence.ok
             THEN ErrorResponse(confidence.err)
             ELSE Response(200, [status |-> "success", animal |-> animal,
                                 confidence |-> confidence.n])

PredictReceive ==
    /\ BagCardinality(reqs) < MaxReqs
    /\ \E method \in {"POST", "OPTIONS"}, file \in PredictFiles :
         LET req == NewReq("predict", method,
                           IF method = "OPTIONS" THEN Missing(NoImage) ELSE file,
                           NoForm)
         IN  reqs' = Arrive(
                 IF method = "OPTIONS"
                 THEN Respond(req, Response(200, [status |-> "ok"]))
                 ELSE IF ~PredictValid(req)
                 THEN Respond(req, Response(400, [error |-> "No image uploaded"]))
                 ELSE [req EXCEPT !.pc = "classify"])
    /\ UNCHANGED <<storage, captured_images, labeled_images>>

\* variant: the classified image is also put into the bucket
PredictClassifyStoring(req) ==
    /\ req \in Requests
    /\ req.route = "predict"
    /\ req.pc = "classify"
    /\ \E response \in ClassifierResponses :
         /\ reqs' = Step(req,
                    Respond([req EXCEPT
                               !.model_response = response,
                               !.log = Append(@, Call("classifier",
                                   IF ClassifierError(response) = ""
                                   THEN "ok" ELSE "error",
                                   ClassifierError(response)))],
                            PredictOutcome(response)))
         /\ storage' = IF ClassifierError(response) = ""
                       THEN storage \cup {[name |-> <<0, "_", req.file.v.filename>>,
                                           data |-> req.file.v.bytes]}
                       ELSE storage
    /\ UNCHANGED <<captured_images, labeled_images>>

PredictClassify(req) ==
    /\ req \in Requests
    /\ req.route = "predict"
    /\ req.pc = "classify"
    /\ \E response \in ClassifierResponses :
         reqs' = Step(req,
                    Respond([req EXCEPT
                               !.model_response = response,
                               !.log = Append(@, Call("classifier",
                                   IF ClassifierError(response) = ""
                                   THEN "ok" ELSE "error",
                                   ClassifierError(response)))],
                            PredictOutcome(response)))
    /\ UNCHANGED <<storage, captured_images, labeled_images>>

\* ---------------------------------------------------------- /save-history
SaveHasImage(req) == req.file.has

\* variant: user_id is not among the required fields
SaveFormCompleteNoUser(form) ==
    /\ Truthy(form.animal, "")
    /\ Truthy(form.confidence, <<>>)

SaveFormComplete(form) ==
    /\ Truthy(form.animal, "")
    /\ Truthy(form.confidence, <<>>)
    /\ Truthy(form.user_id, "")

\* int(time.time()): the wall clock, whole seconds; requests handled within
\* the same second read the same value
Clock == 0..MaxClock

\* f"{int(time.time())}_{file.filename}"
GenFilename(now, name) == <<now, "_", name>>

\* supabase.storage.from_(BUCKET_NAME).get_public_url(filename)
PublicUrl(filename) == <<"object/public", BUCKET_NAME, filename>>

StoredNames == {o.name : o \in storage}

\* variant: the row is created as still being processed
CapturedDataProcessing(user_id, public_url) ==
    [user_id |-> user_id, image_url |-> public_url, status |-> "processing"]

CapturedData(user_id, public_url) ==
    [user_id |-> user_id, image_url |-> public_url, status |-> "completed"]

\* variant: the back-reference is not filled in
LabelDataUnlinked(captured_id, public_url, animal, confidence, user_id) ==
    [captured_image_id |-> 0,
     labeled_image_url |-> public_url,
     animal_detected |-> animal,
     confidence_score |-> confidence,
     user_id |-> user_id]

LabelData(captured_id, public_url, animal, confidence, user_id) ==
    [captured_image_id |-> captured_id,
     labeled_image_url |-> public_url,
     animal_detected |-> animal,
     confidence_score |-> confidence,
     user_id |-> user_id]

SaveReceive ==
    /\ BagCardinality(reqs) < MaxReqs
    /\ \E file \in Files, form \in Forms :
         LET req == NewReq("save-history", "POST", file, form)
         IN  reqs' = Arrive(
                 IF ~SaveHasImage(req)
                 THEN Respond(req, Response(400, [error |-> "No image uploaded"]))
                 ELSE IF ~SaveFormComplete(form)
                 THEN Respond(req, Response(400, [error |-> "Missing required data"]))
                 ELSE [req EXCEPT !.pc = "upload"])
    /\ UNCHANGED <<storage, captured_images, labeled_images>>

\* The upload carries no upsert option: the store refuses a name that is
\* already taken ("Duplicate"); any upload may also fail for its own reasons.
SaveUpload(req) ==
    /\ req \in Requests
    /\ req.route = "save-history"
    /\ req.pc = "upload"
    /\ \E now \in Clock, outcome \in {"ok", "error"} :
         LET filename == GenFilename(now, req.file.v.filename)
             named == [req EXCEPT !.filename = filename]
             e == IF filename \in StoredNames THEN "Duplicate"
                  ELSE IF outcome = "error" THEN "StorageException"
                  ELSE ""
         IN  IF e # ""
             THEN /\ reqs' = Step(req,
                        Respond([named EXCEPT !.log =
                                   Append(@, Call("upload", "error", e))],
                                ErrorResponse(e)))
                  /\ UNCHANGED storage
             ELSE /\ storage' = storage \cup
                        {[name |-> filename, data |-> req.file.v.bytes]}
                  /\ reqs' = Step(req,
                        [named EXCEPT
                           !.log = Append(@, Call("upload", "ok", "")),
                           !.public_url = PublicUrl(filename),
                           !.pc = "insert_captured"])
    /\ UNCHANGED <<captured_images, labeled_images>>

\* insert(...).execute() raises, or returns the created rows in .data
SaveInsertCaptured(req) ==
    /\ req \in Requests
    /\ req.route = "save-history"
    /\ req.pc = "insert_captured"
    /\ \E outcome \in {"created", "empty", "error"} :
         LET row == [id |-> Len(captured_images) + 1]
                    @@ CapturedData(req.form.user_id.v, req.public_url)
             data == IF outcome = "created" THEN <<row>> ELSE <<>>
         IN  /\ captured_images' = captured_images \o data
             /\ reqs' = Step(req,
                  IF outcome = "error"
                  THEN Respond([req EXCEPT !.log = Append(@,
                                  Call("insert_captured", "error", "APIError"))],
                               ErrorResponse("APIError"))
                  ELSE IF data = <<>>
                  THEN Respond([req EXCEPT !.log = Append(@,
                                  Call("insert_captured", "empty", ""))],
                               ErrorResponse(
                                  "Failed to create captured image record"))
                  ELSE [req EXCEPT
                          !.log = Append(@, Call("insert_captured", "ok", "")),
                          !.captured_id = data[1].id,
                          !.pc = "insert_labeled"])
    /\ UNCHANGED <<storage, labeled_images>>

\* label_data is built first: float(confidence) may raise before the insert
SaveInsertLabeled(req) ==
    /\ req \in Requests
    /\ req.route = "save-history"
    /\ req.pc = "insert_labeled"
    /\ \E outcome \in {"ok", "error"} :
         LET confidence == ParseFloat(req.form.confidence.v)
             label_data == LabelData(req.captured_id, req.public_url,
                                     req.form.animal.v, confidence.n,
                                     req.form.user_id.v)
         IN  IF ~confidence.ok
             THEN /\ reqs' = Step(req, Respond(req, ErrorResponse(confidence.err)))
                  /\ UNCHANGED labeled_images
             ELSE IF outcome = "error"
             THEN /\ reqs' = Step(req,
                        Respond([req EXCEPT !.log = Append(@,
                                   Call("insert_labeled", "error", "APIError"))],
                                ErrorResponse("APIError")))
                  /\ UNCHANGED labeled_images
             ELSE /\ labeled_images' = Append(labeled_images,
                        [id |-> Len(labeled_images) + 1] @@ label_data)
                  /\ reqs' = Step(req,
                        Respond([req EXCEPT !.log = Append(@,
                                   Call("insert_labeled", "ok", ""))],
                                Response(200, [status |-> "saved",
                                               image_url |-> req.public_url])))
    /\ UNCHANGED <<storage, captured_images>>

\* ---------------------------------------------------------- specification
Init ==
    /\ reqs = EmptyBag
    /\ storage = {}
    /\ captured_images = <<>>
    /\ labeled_images = <<>>

Next ==
    \/ PredictReceive
    \/ \E req \in Requests : PredictClassify(req)
    \/ SaveReceive
    \/ \E req \in Requests : SaveUpload(req)
    \/ \E req \in Requests : SaveInsertCaptured(req)
    \/ \E req \in Requests : SaveInsertLabeled(req)

Spec == Init /\ [][Next]_vars


\* ================================================================ claims
Done(req) == req.pc = "done"

Calls(req) == {req.log[i].call : i \in DOMAIN req.log}

CallNames(req) == [i \in DOMAIN req.log |-> req.log[i].call]

Answered(req, code) == Len(req.resp) = 1 /\ req.resp[1].code = code

IsPredict(req) == req.route = "predict" /\ req.method = "POST"

IsSave(req) == req.route = "save-history"

\* the request lacks a required part
Lacking(req) ==
    \/ IsPredict(req) /\ ~req.file.has
    \/ IsSave(req) /\ ( \/ ~req.file.has
                        \/ ~req.form.animal.has
                        \/ ~req.form.confidence.has
                        \/ ~req.form.user_id.has )

\* the stored object / the rows of a request
ObjectOf(req) == [name |-> req.filename, data |-> req.file.v.bytes]

CapturedOf(req) ==
    {i \in DOMAIN captured_images : captured_images[i].id = req.captured_id}

LabeledOf(req) ==
    {i \in DOMAIN labeled_images :
        labeled_images[i].captured_image_id = req.captured_id}

\* everything in the store was put there by a save-history request that
\* passed validation
StoreFromValidSaves ==
    /\ \A o \in storage :
         \E req \in Requests :
            IsSave(req) /\ ~Lacking(req) /\ ObjectOf(req) = o
    /\ \A i \in DOMAIN captured_images :
         \E req \in Requests :
            IsSave(req) /\ ~Lacking(req) /\ req.captured_id = captured_images[i].id
    /\ \A i \in DOMAIN labeled_images :
         \E req \in Requests :
            /\ IsSave(req) /\ ~Lacking(req)
            /\ req.captured_id = labeled_images[i].captured_image_id

\* C1: a /predict request without the image part, and a /save-history
\* request without the image part or without one of animal, confidence,
\* user_id, is answered 400 and makes no outbound call; nothing in storage
\* or in the two tables comes from such a request.
C1_MissingInputRejected ==
    /\ \A req \in Requests :
         Lacking(req) =>
            /\ Done(req)
            /\ Answered(req, 400)
            /\ req.log = <<>>
    /\ StoreFromValidSaves

C1_Witness ==
    \E a, b \in Requests :
        /\ IsPredict(a) /\ ~a.file.has /\ Answered(a, 400)
        /\ IsSave(b) /\ b.file.has /\ ~b.form.user_id.has /\ Answered(b, 400)

\* C2: a /save-history request answered 200 has made exactly the calls
\* upload, CapturedImage insert, LabeledImage insert, in this order and all
\* successful; the object is in storage, one CapturedImage row carries the
\* request's user_id, the object's public URL and status "completed", one
\* LabeledImage row references that row's id and the same URL, and the
\* response carries that URL.
C2_SavedAfterUploadAndInserts ==
    \A req \in Requests :
        (IsSave(req) /\ Answered(req, 200)) =>
            LET url == <<"object/public", "captured-images", req.filename>>
            IN  /\ CallNames(req) = <<"upload", "insert_captured", "insert_labeled">>
                /\ \A i \in DOMAIN req.log : req.log[i].res = "ok"
                /\ req.filename # <<>>
                /\ ObjectOf(req) \in storage
                /\ Cardinality(CapturedOf(req)) = 1
                /\ \A i \in CapturedOf(req) :
                     captured_images[i] =
                        [id |-> req.captured_id, user_id |-> req.form.user_id.v,
                         image_url |-> url, status |-> "completed"]
                /\ Cardinality(LabeledOf(req)) = 1
                /\ \A i \in LabeledOf(req) :
                     labeled_images[i].labeled_image_url = url
                /\ req.resp[1].body = [status |-> "saved", image_url |-> url]

C2_Witness ==
    \E req \in Requests :
        IsSave(req) /\ Answered(req, 200) /\ Len(labeled_images) >= 1

\* C3: when the CapturedImage insert returns no created row the request is
\* answered 500 and makes no LabeledImage insert; every LabeledImage row
\* references a CapturedImage row that its own request got back as created.
C3_NoLabelWithoutCapturedRow ==
    /\ \A req \in Requests :
         (\E i \in DOMAIN req.log :
             req.log[i].call = "insert_captured" /\ req.log[i].res # "ok") =>
            /\ Done(req)
            /\ Answered(req, 500)
            /\ "insert_labeled" \notin Calls(req)
            /\ LabeledOf(req) = {}
    /\ \A i \in DOMAIN labeled_images :
         \E req \in Requests :
            /\ IsSave(req)
            /\ req.captured_id = labeled_images[i].captured_image_id
            /\ req.form.user_id.v = labeled_images[i].user_id
            /\ \E j \in DOMAIN req.log :
                 req.log[j] = [call |-> "insert_captured", res |-> "ok", err |-> ""]
            /\ \E k \in DOMAIN captured_images :
                 captured_images[k].id = req.captured_id

C3_Witness ==
    /\ \E req \in Requests :
         /\ \E i \in DOMAIN req.log :
              req.log[i].call = "insert_captured" /\ req.log[i].res = "empty"
         /\ Answered(req, 500)
    /\ Len(labeled_images) >= 1

\* C4: a request whose outbound call fails is answered once, with 500 and
\* the error text; the failed call is the last call it makes, and no call
\* is made twice by one request.
C4_FailureEndsRequestOnce ==
    \A req \in Requests :
        /\ Len(req.resp) <= 1
        /\ \A i, j \in DOMAIN req.log :
             i # j => req.log[i].call # req.log[j].call
        /\ \A i \in DOMAIN req.log :
             req.log[i].res # "ok" =>
                /\ i = Len(req.log)
                /\ Done(req)
                /\ req.resp =
                     << [code |-> 500,
                         body |-> [error |->
                            IF req.log[i].res = "empty"
                            THEN "Failed to create captured image record"
                            ELSE req.log[i].err]] >>

C4_Witness ==
    \E a, b \in Requests :
        /\ IsPredict(a) /\ a.model_response.kind = "timeout" /\ Answered(a, 500)
        /\ IsSave(b) /\ Len(b.log) = 3 /\ b.log[3].res = "error"
        /\ Answered(b, 500)

\* the classifier answered 2xx with a JSON object
ClassifiedObject(req) ==
    /\ IsPredict(req)
    /\ req.model_response.kind = "http"
    /\ req.model_response.status >= 200 /\ req.model_response.status < 300
    /\ req.model_response.body.json = "object"

\* C7: with a 2xx JSON answer carrying a numeric confidence c and a label l
\* the response is 200 {success, l, c * 100}; without the key "label" the
\* animal is "Unknown", without the key "confidence" the confidence is 0.
C7_PredictScalesConfidence ==
    \A req \in Requests :
        LET body == req.model_response.body
        IN  (/\ ClassifiedObject(req)
             /\ (~body.confidence.has \/ body.confidence.v.t = "num")) =>
               req.resp =
                 << [code |-> 200,
                     body |-> [status |-> "success",
                               animal |-> IF body.label.has
                                          THEN body.label.v ELSE "Unknown",
                               confidence |-> IF body.confidence.has
                                              THEN body.confidence.v.n * 100
                                              ELSE 0]] >>

C7_Witness ==
    \E a, b \in Requests :
        /\ ClassifiedObject(a)
        /\ a.model_response.body.label = Field("fox")
        /\ a.model_response.body.confidence = Field(JNum(87))
        /\ Answered(a, 200)
        /\ a.resp[1].body.confidence = 87 * Scale
        /\ ClassifiedObject(b)
        /\ ~b.model_response.body.label.has
        /\ ~b.model_response.body.confidence.has
        /\ Answered(b, 200)

\* C5: every CapturedImage row with status "completed" has a LabeledImage
\* row that references it.
C5_CompletedHasLabel ==
    \A i \in DOMAIN captured_images :
        captured_images[i].status = "completed" =>
            \E j \in DOMAIN labeled_images :
                labeled_images[j].captured_image_id = captured_images[i].id

\* C6: every confidence_score in a LabeledImage row lies in 0..100.
C6_ConfidenceWithinScale ==
    \A j \in DOMAIN labeled_images :
        /\ labeled_images[j].confidence_score >= 0
        /\ labeled_images[j].confidence_score <= 100 * Scale

PredictSucceeded(req) == IsPredict(req) /\ Answered(req, 200)

\* the image and the result of a /predict request are in the store
PredictPersisted(req) ==
    /\ \E o \in storage : o.data = req.file.v.bytes
    /\ \E j \in DOMAIN labeled_images :
         /\ labeled_images[j].animal_detected = req.resp[1].body.animal
         /\ labeled_images[j].confidence_score = req.resp[1].body.confidence

\* C8 as stated: the result of every successful /predict is persisted.  The
\* handler starts no background task, so once it has returned nothing of
\* the request remains to run: what it persists is in the store by then.
C8_PredictPersists ==
    \A req \in Requests :
        (PredictSucceeded(req) /\ Done(req)) => PredictPersisted(req)

\* C8 amended: /predict persists nothing, whether the classification
\* succeeds (200) or not (500): it makes the classifier call only, and
\* every object and row in the store comes from a /save-history request.
C8_PredictPersistsNothing ==
    /\ \A req \in Requests :
         req.route = "predict" =>
            /\ Calls(req) \subseteq {"classifier"}
            /\ req.filename = <<>> /\ req.captured_id = 0
            /\ (Done(req) /\ IsPredict(req) /\ req.file.has) =>
                  /\ Calls(req) = {"classifier"}
                  /\ req.log[1].res = "error" => Answered(req, 500)
                  /\ ClassifiedObject(req)
                       /\ req.model_response.body.confidence = Field(JNum(87))
                       => Answered(req, 200)
    /\ \A o \in storage :
         \E req \in Requests :
            /\ IsSave(req) /\ ObjectOf(req) = o
            /\ \E i \in DOMAIN req.log : req.log[i] = [call |-> "upload", res |-> "ok", err |-> ""]
    /\ \A i \in DOMAIN captured_images :
         \E req \in Requests : IsSave(req) /\ req.captured_id = captured_images[i].id
    /\ \A j \in DOMAIN labeled_images :
         \E req \in Requests :
            IsSave(req) /\ req.captured_id = labeled_images[j].captured_image_id

C8_Witness ==
    \E a, b \in Requests :
        /\ PredictSucceeded(a) /\ ~PredictPersisted(a)
        /\ IsPredict(b) /\ b.log # <<>> /\ b.log[1].res = "error"
        /\ Answered(b, 500)
        /\ storage = {} /\ labeled_images = <<>>

\* C9: a 2xx JSON answer whose "confidence" cannot be converted to a number
\* is answered 200 with confidence 0.
C9_BadConfidenceDefaultsToZero ==
    \A req \in Requests :
        LET body == req.model_response.body
        IN  (/\ ClassifiedObject(req)
             /\ body.confidence.has
             /\ body.confidence.v.t # "num") =>
               req.resp =
                 << [code |-> 200,
                     body |-> [status |-> "success",
                               animal |-> IF body.label.has
                                          THEN body.label.v ELSE "Unknown",
                               confidence |-> 0]] >>

\* C10: two /save-history requests never upload under the same object key.
C10_DistinctObjectKeys ==
    \A a \in Requests :
        a.filename # <<>> =>
            /\ CopiesIn(a, reqs) = 1
            /\ \A b \in Requests \ {a} : b.filename # a.filename

====
